---------------------------- MODULE Spec2Model ----------------------------
(***************************************************************************)
(* A model of src/yolox/src/transform.py: letterbox resizing (preproc),    *)
(* the perspective warp of boxes (random_perspective, box_candidates) and  *)
(* the training transform (TrainTransform.__call__, get_grid,              *)
(* get_in_boxes_info).                                                     *)
(*                                                                         *)
(* numpy arrays are sequences of rows.  Real numbers are exact rationals   *)
(* <<n, d>> with d > 0 in lowest terms; the inputs are chosen so that the  *)
(* floating-point operations of the source are exact on them, except in    *)
(* preproc, where the rounding of the double division and multiplication   *)
(* is modelled bit for bit (IntMulDiv).                                    *)
(***************************************************************************)
EXTENDS Integers, Sequences, FiniteSets, TLC

VARIABLES
    self,        \* the TrainTransform object (fields set by __init__)
    image,       \* the caller's image buffer: [shape, hsv]
    input_dim,   \* the input_dim the caller passes to __call__
    targets,     \* the caller's target array (N rows of x1,y1,x2,y2,label)
    ncalls,      \* number of __call__ invocations so far
    ret,         \* what the last __call__ returned (and its arguments)
    info,        \* the last get_in_boxes_info invocation: arguments, locals, result
    args,        \* arguments of a pending call of a module-level function
    result       \* its result

vars == <<self, image, input_dim, targets, ncalls, ret, info, args, result>>

trainVars == <<self, image, input_dim, targets, ncalls, ret, info>>

None == [op |-> "none"]

-----------------------------------------------------------------------------
(* Exact rational arithmetic.                                               *)

Abs(n) == IF n < 0 THEN -n ELSE n

RECURSIVE GCD(_, _)
GCD(a, b) == IF b = 0 THEN a ELSE GCD(b, a % b)

Rat(n, d) ==
    LET s == IF d < 0 THEN -1 ELSE 1
        g == GCD(Abs(n), Abs(d))
    IN  <<(s * n) \div g, (s * d) \div g>>

R(n) == <<n, 1>>

RAdd(x, y) == Rat(x[1] * y[2] + y[1] * x[2], x[2] * y[2])
RSub(x, y) == Rat(x[1] * y[2] - y[1] * x[2], x[2] * y[2])
RMul(x, y) == Rat(x[1] * y[1], x[2] * y[2])
RLt(x, y) == x[1] * y[2] < y[1] * x[2]
RLe(x, y) == x[1] * y[2] <= y[1] * x[2]
RMin(x, y) == IF RLt(y, x) THEN y ELSE x
RMax(x, y) == IF RLt(x, y) THEN y ELSE x
RFloor(x) == x[1] \div x[2]
RClip(x, lo, hi) == RMin(RMax(x, lo), hi)

Zero == R(0)
Half == Rat(1, 2)

RECURSIVE Pow2(_)
Pow2(k) == IF k = 0 THEN 1 ELSE 2 * Pow2(k - 1)

-----------------------------------------------------------------------------
(* IEEE-754 double arithmetic on small positive integers, as preproc uses   *)
(* it: r = a / b rounded to nearest, then int(n * r).                       *)

\* The exponent e of a/b: 2^e <= a/b < 2^(e+1).
RECURSIVE FloorLog2(_, _)
FloorLog2(a, b) ==
    IF a >= 2 * b THEN 1 + FloorLog2(a, 2 * b)
    ELSE IF a < b THEN FloorLog2(2 * a, b) - 1
    ELSE 0

\* 2^k mod m.
RECURSIVE PowMod(_, _)
PowMod(k, m) == IF k = 0 THEN 1 % m ELSE (2 * PowMod(k - 1, m)) % m

\* Number of bits of a double's significand after the leading one.
MantissaBits == 52

\* The double q nearest to a/b has the significand Mq (53 bits) with
\* Mq * b = a * 2^(MantissaBits - e) + d.  DivErr is d: negative when the
\* quotient was rounded down, positive when it was rounded up (ties to even).
DivErr(a, b) ==
    LET k   == MantissaBits - FloorLog2(a, b)
        r2  == ((a % (2 * b)) * PowMod(k, 2 * b)) % (2 * b)
        rem == r2 % b
        odd == r2 \div b
    IN  IF 2 * rem < b \/ (2 * rem = b /\ odd = 0) THEN -rem ELSE b - rem

\* int(n * (a / b)) in double arithmetic.  n * q = n*a/b + n*d/(b * 2^k): when
\* b does not divide n*a the product is well inside (F, F+1); when it does,
\* the product is F perturbed by n*d/(b * 2^k) and rounds below F exactly
\* when d < 0 and the perturbation exceeds half the spacing of doubles below F.
IntMulDiv(n, a, b) ==
    LET d  == DivErr(a, b)
        e  == FloorLog2(a, b)
        F  == (n * a) \div b
        mF == FloorLog2(F, 1)
        E  == mF - e - 1 - (IF F = Pow2(mF) THEN 1 ELSE 0)
        lhs == n * (-d) * (IF E < 0 THEN Pow2(-E) ELSE 1)
        rhs == b * (IF E > 0 THEN Pow2(E) ELSE 1)
    IN  IF (n * a) % b # 0 \/ d >= 0 THEN F
        ELSE IF lhs > rhs THEN F - 1 ELSE F

-----------------------------------------------------------------------------
(* preproc(img, input_size): shapes are <<height, width>>.                  *)

\* The fill value of the padded canvas.
PadValue == 114

\* r = min(input_size[0] / img.shape[0], input_size[1] / img.shape[1]), as the
\* pair <<a, b>> of the quotient a / b that is the smaller one.
PreprocRatio(shape, size) ==
    IF size[1] * shape[2] <= size[2] * shape[1]
    THEN <<size[1], shape[1]>>
    ELSE <<size[2], shape[2]>>

\* (int(img.shape[0] * r), int(img.shape[1] * r)): rows and columns the
\* resized image takes.
ResizedShape(shape, size) ==
    LET q == PreprocRatio(shape, size)
    IN  <<IntMulDiv(shape[1], q[1], q[2]), IntMulDiv(shape[2], q[1], q[2])>>

\* padded_img: the canvas of input_size filled with 114, with the resized
\* image written at [:new_h, :new_w].  A pixel of the resized image is the
\* tagged value <<"px", y, x>>.
PaddedImg(shape, size) ==
    LET rs == ResizedShape(shape, size)
    IN  [y \in 1..size[1] |->
            [x \in 1..size[2] |->
                IF y <= rs[1] /\ x <= rs[2] THEN <<"px", y, x>> ELSE PadValue]]

preproc(shape, size) ==
    [op         |-> "preproc",
     padded_img |-> PaddedImg(shape, size),
     resized    |-> ResizedShape(shape, size),
     r          |-> PreprocRatio(shape, size)]

\* Largest height or width of a canvas, and of a source image, drawn.
MaxCanvas == 3
MaxSource == 47

PreprocArgs ==
    [op : {"preproc"},
     shape : (1..MaxSource) \X (1..MaxSource),
     size : (1..MaxCanvas) \X (1..MaxCanvas)]

\* Dummy values of the variables of the training transform, for the
\* specifications of the module-level functions.
NoTrain ==
    /\ self = None /\ image = None /\ input_dim = None /\ targets = <<>>
    /\ ncalls = 0 /\ ret = None /\ info = None

InitPreproc == NoTrain /\ args \in PreprocArgs /\ result = None

\* cv2.resize raises when the destination size has a zero dimension.
PreprocCall ==
    /\ args.op = "preproc" /\ result = None
    /\ ResizedShape(args.shape, args.size)[1] >= 1
    /\ ResizedShape(args.shape, args.size)[2] >= 1
    /\ result' = preproc(args.shape, args.size)
    /\ UNCHANGED <<trainVars, args>>

PreprocRaise ==
    /\ args.op = "preproc" /\ result = None
    /\ ~(/\ ResizedShape(args.shape, args.size)[1] >= 1
          /\ ResizedShape(args.shape, args.size)[2] >= 1)
    /\ result' = [op |-> "error"]
    /\ UNCHANGED <<trainVars, args>>

NextPreproc == PreprocCall \/ PreprocRaise

SpecPreproc == InitPreproc /\ [][NextPreproc]_vars

-----------------------------------------------------------------------------
(* box_candidates and random_perspective.  A target row is                  *)
(* <<x1, y1, x2, y2, label>>, a box <<x1, y1, x2, y2>>, all rationals.      *)

RDiv(x, y) == Rat(x[1] * y[2], x[2] * y[1])

\* Thresholds of box_candidates: wh_thr, ar_thr, area_thr.
wh_thr == 2
ar_thr == 20
area_thr == Rat(2, 10)

\* n / (d + 1e-16) > thr and n / (d + 1e-16) < thr for n, d >= 0: the 1e-16 is
\* absorbed by a d that is not zero, and makes the quotient of a positive n
\* by zero huge.
QuotGt(n, d, thr) == IF d = Zero THEN RLt(Zero, n) ELSE RLt(RMul(thr, d), n)
QuotLt(n, d, thr) == IF d = Zero THEN n = Zero ELSE RLt(n, RMul(thr, d))

box_candidates_ge(box1, box2) ==
    LET w1 == RSub(box1[3], box1[1])
        h1 == RSub(box1[4], box1[2])
        w2 == RSub(box2[3], box2[1])
        h2 == RSub(box2[4], box2[2])
    IN  /\ RLe(R(wh_thr), w2)
        /\ RLe(R(wh_thr), h2)
        /\ QuotGt(RMul(w2, h2), RMul(w1, h1), area_thr)
        /\ QuotLt(w2, h2, R(ar_thr)) /\ QuotLt(h2, w2, R(ar_thr))

\* box_candidates for one column of box1 (4, n) and box2 (4, n).
box_candidates(box1, box2) ==
    LET w1 == RSub(box1[3], box1[1])
        h1 == RSub(box1[4], box1[2])
        w2 == RSub(box2[3], box2[1])
        h2 == RSub(box2[4], box2[2])
    IN  /\ RLt(R(wh_thr), w2)
        /\ RLt(R(wh_thr), h2)
        /\ QuotGt(RMul(w2, h2), RMul(w1, h1), area_thr)
        \* ar = max(w2 / (h2 + 1e-16), h2 / (w2 + 1e-16)) < ar_thr
        /\ QuotLt(w2, h2, R(ar_thr)) /\ QuotLt(h2, w2, R(ar_thr))

\* 3 x 3 matrices of rationals.
Eye3 == <<<<R(1), Zero, Zero>>, <<Zero, R(1), Zero>>, <<Zero, Zero, R(1)>>>>

MatMul(A, B) ==
    [i \in 1..3 |-> [j \in 1..3 |->
        RAdd(RAdd(RMul(A[i][1], B[1][j]), RMul(A[i][2], B[2][j])),
             RMul(A[i][3], B[3][j]))]]

\* One row <<x, y, 1>> of xy @ M.T.
MatVec(M, x, y) ==
    [i \in 1..3 |-> RAdd(RAdd(RMul(M[i][1], x), RMul(M[i][2], y)), M[i][3])]

\* C: the centre of the image moved to the origin.
MatC(shape) ==
    <<<<R(1), Zero, Rat(-shape[2], 2)>>, <<Zero, R(1), Rat(-shape[1], 2)>>,
      <<Zero, Zero, R(1)>>>>

\* R: cv2.getRotationMatrix2D(angle=a, center=(0, 0), scale=s) in the top rows.
MatR(a, s) ==
    LET alpha == RMul(s, a.cos)
        beta  == RMul(s, a.sin)
    IN  <<<<alpha, beta, Zero>>, <<RSub(Zero, beta), alpha, Zero>>,
          <<Zero, Zero, R(1)>>>>

\* S: the two shears, as the tangents of the angles drawn.
MatS(shx, shy) ==
    <<<<R(1), shx.tan, Zero>>, <<shy.tan, R(1), Zero>>, <<Zero, Zero, R(1)>>>>

MatT_swapped(fx, fy, width, height) ==
    <<<<R(1), Zero, RMul(fx, R(height))>>, <<Zero, R(1), RMul(fy, R(width))>>,
      <<Zero, Zero, R(1)>>>>

\* T: the translation, a fraction of the width and of the height.
MatT(fx, fy, width, height) ==
    <<<<R(1), Zero, RMul(fx, R(width))>>, <<Zero, R(1), RMul(fy, R(height))>>,
      <<Zero, Zero, R(1)>>>>

\* M = T @ S @ R @ C.
MatM(T, S, Rm, C) == MatMul(MatMul(MatMul(T, S), Rm), C)

RMin4(a, b, c, d) == RMin(RMin(a, b), RMin(c, d))
RMax4(a, b, c, d) == RMax(RMax(a, b), RMax(c, d))

\* The box of a target row after the warp: its four corners through M (and
\* the division by the homogeneous coordinate under perspective), the
\* axis-aligned box around them, clipped to the canvas.
WarpBox(row, M, perspective, width, height) ==
    LET p1 == MatVec(M, row[1], row[2])
        p2 == MatVec(M, row[3], row[4])
        p3 == MatVec(M, row[1], row[4])
        p4 == MatVec(M, row[3], row[2])
        X(p) == IF perspective THEN RDiv(p[1], p[3]) ELSE p[1]
        Y(p) == IF perspective THEN RDiv(p[2], p[3]) ELSE p[2]
    IN  <<RClip(RMin4(X(p1), X(p2), X(p3), X(p4)), Zero, R(width)),
          RClip(RMin4(Y(p1), Y(p2), Y(p3), Y(p4)), Zero, R(height)),
          RClip(RMax4(X(p1), X(p2), X(p3), X(p4)), Zero, R(width)),
          RClip(RMax4(Y(p1), Y(p2), Y(p3), Y(p4)), Zero, R(height))>>

ScaleBox(row, s) ==
    <<RMul(row[1], s), RMul(row[2], s), RMul(row[3], s), RMul(row[4], s)>>

\* arr[i] for a boolean index i: the rows whose index is in keep, in order.
RECURSIVE SelectRows(_, _, _)
SelectRows(arr, keep, k) ==
    IF k > Len(arr) THEN <<>>
    ELSE (IF keep[k] THEN <<arr[k]>> ELSE <<>>) \o SelectRows(arr, keep, k + 1)

\* random_perspective(img, targets, degrees, translate, scale, shear,
\* perspective, border) with the draws a, s, shx, shy, fx, fy of random.uniform.
random_perspective(a_, a, s, shx, shy, fx, fy) ==
    LET height == a_.shape[1] + a_.border[1] * 2
        width  == a_.shape[2] + a_.border[2] * 2
        M == MatM(MatT(fx, fy, width, height), MatS(shx, shy), MatR(a, s),
                  MatC(a_.shape))
        changed == a_.border[1] # 0 \/ a_.border[2] # 0 \/ M # Eye3
        n == Len(a_.targets)
        xy == [k \in 1..n |-> WarpBox(a_.targets[k], M, a_.perspective, width, height)]
        i == [k \in 1..n |-> box_candidates(ScaleBox(a_.targets[k], s), xy[k])]
        new == [k \in 1..n |-> xy[k] \o <<a_.targets[k][5]>>]
    IN  [op      |-> "random_perspective",
         M       |-> M,
         s       |-> s,
         warp    |-> IF ~changed THEN "none"
                     ELSE IF a_.perspective THEN "perspective" ELSE "affine",
         shape   |-> IF changed THEN <<height, width>> ELSE a_.shape,
         xy      |-> xy,
         targets |-> IF n = 0 THEN a_.targets ELSE SelectRows(new, i, 1)]

\* Largest number of rows of a target array drawn.
MaxBoxes == 2

RECURSIVE SeqsUpTo(_, _)
SeqsUpTo(S, n) ==
    IF n = 0 THEN {<<>>}
    ELSE LET shorter == SeqsUpTo(S, n - 1)
         IN  shorter \cup {Append(q, x) : q \in {t \in shorter : Len(t) = n - 1}, x \in S}

Row(x1, y1, x2, y2, label) == <<R(x1), R(y1), R(x2), R(y2), R(label)>>

\* The image of the warp, and the boxes drawn on it: an ordinary box, one of
\* aspect ratio 20, one 2 px wide, one that clipping cuts to a fifth of its
\* area, one that clipping cuts in half.
PerspShapes == {<<64, 64>>, <<48, 64>>}

PerspBoxes ==
    {Row(10, 10, 30, 30, 1), Row(0, 0, 60, 3, 2), Row(5, 5, 7, 40, 3),
     Row(54, 10, 104, 30, 4), Row(50, 50, 70, 70, 5)}

IdentityParams ==
    [degrees |-> 0, translate |-> Zero, scale |-> <<R(1), R(1)>>, shear |-> 0,
     perspective |-> FALSE, border |-> <<0, 0>>]

PerspParams ==
    {IdentityParams,
     [degrees |-> 90, translate |-> Zero, scale |-> <<R(1), R(1)>>, shear |-> 0,
      perspective |-> FALSE, border |-> <<0, 0>>],
     [degrees |-> 0, translate |-> Rat(1, 4), scale |-> <<Half, R(2)>>, shear |-> 0,
      perspective |-> TRUE, border |-> <<0, 0>>],
     [degrees |-> 0, translate |-> Zero, scale |-> <<R(1), R(1)>>, shear |-> 45,
      perspective |-> FALSE, border |-> <<2, 2>>]}

\* Values random.uniform can return: angles by the degrees (rounded away
\* from zero) and the cosine and sine, shears by the degrees and the tangent.
AngleDraws ==
    {[deg |-> 0, cos |-> R(1), sin |-> Zero],
     [deg |-> 90, cos |-> Zero, sin |-> R(1)],
     [deg |-> -90, cos |-> Zero, sin |-> R(-1)],
     [deg |-> 54, cos |-> Rat(3, 5), sin |-> Rat(4, 5)]}

ScaleDraws == {Half, R(1), R(2)}

ShearDraws ==
    {[deg |-> 0, tan |-> Zero], [deg |-> 45, tan |-> R(1)], [deg |-> -45, tan |-> R(-1)]}

TranslateDraws(translate) == {RSub(Half, translate), Half, RAdd(Half, translate)}

PerspArgs ==
    {[op |-> "random_perspective", shape |-> sh, targets |-> t,
      degrees |-> p.degrees, translate |-> p.translate, scale |-> p.scale,
      shear |-> p.shear, perspective |-> p.perspective, border |-> p.border] :
        sh \in PerspShapes, t \in SeqsUpTo(PerspBoxes, MaxBoxes), p \in PerspParams}

InitPersp == NoTrain /\ args \in PerspArgs /\ result = None

RandomPerspective ==
    /\ args.op = "random_perspective" /\ result = None
    /\ \E a \in AngleDraws, s \in ScaleDraws, shx \in ShearDraws, shy \in ShearDraws :
         /\ -args.degrees <= a.deg /\ a.deg <= args.degrees
         /\ RLe(args.scale[1], s) /\ RLe(s, args.scale[2])
         /\ -args.shear <= shx.deg /\ shx.deg <= args.shear
         /\ -args.shear <= shy.deg /\ shy.deg <= args.shear
         /\ \E fx \in TranslateDraws(args.translate), fy \in TranslateDraws(args.translate) :
              result' = random_perspective(args, a, s, shx, shy, fx, fy)
    /\ UNCHANGED <<trainVars, args>>

NextPersp == RandomPerspective

SpecPersp == InitPersp /\ [][NextPersp]_vars

-----------------------------------------------------------------------------
(* TrainTransform.                                                          *)

RECURSIVE RSum(_, _)
RSum(q, k) == IF k > Len(q) THEN Zero ELSE RAdd(q[k], RSum(q, k + 1))

\* __init__ with a config: grid_size is a list of floats, the products of
\* the true quotients, and num_total_anchor the int() of their sum.
TrainTransformInit(config) ==
    LET grid_size == [i \in 1..Len(config.fpn_strides) |->
                        RMul(Rat(config.input_size[1], config.fpn_strides[i]),
                             Rat(config.input_size[2], config.fpn_strides[i]))]
    IN  [max_labels       |-> config.max_gt,
         flip_prob        |-> config.flip_prob,
         hsv_prob         |-> config.hsv_prob,
         strides          |-> config.fpn_strides,
         input_size       |-> config.input_size,
         grid_size        |-> grid_size,
         num_total_anchor |-> RFloor(RSum(grid_size, 1))]

\* The anchors of one stride: grid_size_x = int(input_size[0] / stride) rows
\* of grid_size_y = int(input_size[1] / stride) cells, flattened row-major;
\* x is the column index, y the row index.
GridOfStride(stride, input_size) ==
    LET grid_size_x == input_size[1] \div stride
        grid_size_y == input_size[2] \div stride
    IN  [k \in 1..(grid_size_x * grid_size_y) |->
            [x |-> (k - 1) % grid_size_y, y |-> (k - 1) \div grid_size_y,
             stride |-> stride]]

\* get_grid: x_shifts, y_shifts and expanded_strides, one record per anchor,
\* the strides concatenated in the order of self.strides.
RECURSIVE GridFrom(_, _)
GridFrom(me, i) ==
    IF i > Len(me.strides) THEN <<>>
    ELSE GridOfStride(me.strides[i], me.input_size) \o GridFrom(me, i + 1)

get_grid(me) == GridFrom(me, 1)

center_radius == Rat(5, 2)

RGt0(x) == RLt(Zero, x)

PaddingFalse_off(g, true_lables, v) == v

\* The zeroing of the rows from true_lables on: is_in_boxes[true_lables:] = False.
PaddingFalse(g, true_lables, v) == g <= true_lables /\ v

InBox_closed(gt, xc, yc) ==
    /\ RLe(RSub(gt[1], RMul(Half, gt[3])), xc) /\ RLe(xc, RAdd(gt[1], RMul(Half, gt[3])))
    /\ RLe(RSub(gt[2], RMul(Half, gt[4])), yc) /\ RLe(yc, RAdd(gt[2], RMul(Half, gt[4])))

\* bbox_deltas.min(axis=-1) > 0.0 for the ground truth row gt (cx, cy, w, h)
\* and the anchor centre (xc, yc).
InBox(gt, xc, yc) ==
    LET b_l == RSub(xc, RSub(gt[1], RMul(Half, gt[3])))
        b_r == RSub(RAdd(gt[1], RMul(Half, gt[3])), xc)
        b_t == RSub(yc, RSub(gt[2], RMul(Half, gt[4])))
        b_b == RSub(RAdd(gt[2], RMul(Half, gt[4])), yc)
    IN  RGt0(RMin4(b_l, b_t, b_r, b_b))

\* center_deltas.min(axis=-1) > 0.0.
InCenter(gt, xc, yc, stride) ==
    LET rad == RMul(center_radius, R(stride))
        c_l == RSub(xc, RSub(gt[1], rad))
        c_r == RSub(RAdd(gt[1], rad), xc)
        c_t == RSub(yc, RSub(gt[2], rad))
        c_b == RSub(RAdd(gt[2], rad), yc)
    IN  RGt0(RMin4(c_l, c_r, c_t, c_b))

\* x_centers_per_image and y_centers_per_image of an anchor.
XCenter(an) == RAdd(R(an.x * an.stride), RMul(Half, R(an.stride)))
YCenter(an) == RAdd(R(an.y * an.stride), RMul(Half, R(an.stride)))

\* get_in_boxes_info(gt_bboxes_per_image, true_lables): the masks have
\* self.max_labels rows and one column per anchor of get_grid.
get_in_boxes_info(me, gt_bboxes_per_image, true_lables, caller) ==
    LET grid == get_grid(me)
        num_total_anchor == Len(grid)
        is_in_boxes ==
            [g \in 1..me.max_labels |-> [a \in 1..num_total_anchor |->
                PaddingFalse(g, true_lables,
                    InBox(gt_bboxes_per_image[g], XCenter(grid[a]), YCenter(grid[a])))]]
        is_in_centers ==
            [g \in 1..me.max_labels |-> [a \in 1..num_total_anchor |->
                PaddingFalse(g, true_lables,
                    InCenter(gt_bboxes_per_image[g], XCenter(grid[a]), YCenter(grid[a]),
                             grid[a].stride))]]
    IN  [op            |-> "get_in_boxes_info",
         caller        |-> caller,
         grid          |-> grid,
         num_total_anchor |-> num_total_anchor,
         gt            |-> gt_bboxes_per_image,
         true_lables   |-> true_lables,
         is_in_boxes   |-> is_in_boxes,
         is_in_centers |-> is_in_centers,
         is_in_boxes_all |->
            [g \in 1..me.max_labels |-> [a \in 1..num_total_anchor |->
                is_in_boxes[g][a] \/ is_in_centers[g][a]]],
         is_in_boxes_and_center |->
            [g \in 1..me.max_labels |-> [a \in 1..num_total_anchor |->
                is_in_boxes[g][a] /\ is_in_centers[g][a]]]]

\* xyxy2cxcywh on one row (the label column is not part of the view).
xyxy2cxcywh(row) ==
    LET w == RSub(row[3], row[1])
        h == RSub(row[4], row[2])
    IN  <<RAdd(row[1], RMul(w, Half)), RAdd(row[2], RMul(h, Half)), w, h, row[5]>>

\* _mirror on one row: boxes[:, 0::2] = width - boxes[:, 2::-2] when the draw
\* of random.random() is below prob.
MirrorRow(row, width, flipped) ==
    IF flipped
    THEN <<RSub(R(width), row[3]), row[2], RSub(R(width), row[1]), row[4], row[5]>>
    ELSE row

\* boxes *= r on one row.
ScaleRow(row, r) ==
    <<RMul(row[1], r), RMul(row[2], r), RMul(row[3], r), RMul(row[4], r), row[5]>>

MaskB_ge(row) == RLe(R(1), RMin(row[3], row[4]))

\* mask_b = np.minimum(boxes[:, 2], boxes[:, 3]) > 1.
MaskB(row) == RLt(R(1), RMin(row[3], row[4]))

ZeroRow == <<Zero, Zero, Zero, Zero, Zero>>

\* padded_labels: the first max_labels rows of targets_t, then zero rows.
PadLabels(targets_t, max_labels) ==
    [g \in 1..max_labels |-> IF g <= Len(targets_t) THEN targets_t[g] ELSE ZeroRow]

\* a.any(1) and a.any(0) of a boolean matrix.
AnyAxis1(m) == [g \in 1..Len(m) |-> \E a \in 1..Len(m[g]) : m[g][a]]
AnyAxis0(m, ncols) == [a \in 1..ncols |-> \E g \in 1..Len(m) : m[g][a]]

\* u.reshape((-1, 1)) * v.reshape((1, -1)).
Outer(u, v) == [g \in 1..Len(u) |-> [a \in 1..Len(v) |-> u[g] /\ v[a]]]

Aggregate_none(m, ncols) == m

Aggregate(m, ncols) == Outer(AnyAxis1(m), AnyAxis0(m, ncols))

Zeros(rows, cols) == [g \in 1..rows |-> [a \in 1..cols |-> FALSE]]

TargetsT_mirrored(boxes, boxes_o, r_o) ==
    LET keep == [k \in 1..Len(boxes) |-> MaskB(boxes[k])]
        boxes_t == SelectRows(boxes, keep, 1)
        rows == IF boxes_t = <<>> THEN boxes ELSE boxes_t
    IN  [k \in 1..Len(rows) |->
            <<rows[k][5], rows[k][1], rows[k][2], rows[k][3], rows[k][4]>>]

\* The rows targets_t of __call__ (label first), from the caller's rows
\* after mirror, conversion and scaling (boxes) and the converted copy
\* (boxes_o), which replaces them when no row passes mask_b.
TargetsT(boxes, boxes_o, r_o) ==
    LET keep == [k \in 1..Len(boxes) |-> MaskB(boxes[k])]
        boxes_t == SelectRows(boxes, keep, 1)
        rows == IF boxes_t = <<>>
                THEN [k \in 1..Len(boxes_o) |-> ScaleRow(boxes_o[k], r_o)]
                ELSE boxes_t
    IN  [k \in 1..Len(rows) |->
            <<rows[k][5], rows[k][1], rows[k][2], rows[k][3], rows[k][4]>>]

\* Largest number of __call__ invocations on one target array.
MaxCalls == 2

Configs ==
    {[max_gt |-> m, flip_prob |-> Half, hsv_prob |-> R(1), fpn_strides |-> <<2, 4>>,
      input_size |-> sz] : m \in {1, 2}, sz \in {<<8, 8>>, <<6, 8>>}}
    \ {[max_gt |-> 1, flip_prob |-> Half, hsv_prob |-> R(1), fpn_strides |-> <<2, 4>>,
        input_size |-> <<6, 8>>]}

\* The caller's images are 8 x 8, 16 x 16 or 4 x 4 and go to an 8 x 8 input:
\* the resize ratios 1, 1/2 and 2 are exact in floating point.
ImageShapes == {<<8, 8>>, <<16, 16>>, <<4, 4>>}

InputDims == {<<8, 8>>}

\* Corner-format rows the caller's target array is drawn from: a 4 x 4 box,
\* a box 1 px wide, and a 4 x 2 box whose left and right edges lie on centres
\* of stride-2 anchors.
TrainBoxes == {Row(2, 2, 6, 6, 1), Row(0, 1, 1, 5, 2), Row(1, 1, 5, 3, 3)}

\* Centre-format boxes get_in_boxes_info is called with directly.
GtBoxes ==
    {<<Zero, Zero, Zero, Zero>>, <<R(9), R(4), R(16), R(8)>>,
     <<R(3), R(3), R(4), R(4)>>, <<R(7), R(2), R(1), R(1)>>}

\* Values random.random() returns.
RandomDraws == {Rat(1, 4), Rat(3, 4)}

InitTrain ==
    /\ self \in {TrainTransformInit(c) : c \in Configs}
    /\ image \in [shape : ImageShapes, hsv : {FALSE}]
    /\ input_dim \in InputDims
    /\ targets \in SeqsUpTo(TrainBoxes, MaxBoxes)
    /\ ncalls = 0
    /\ ret = None
    /\ info = None
    /\ args = None
    /\ result = None

\* get_in_boxes_info was called on its own.
Probed == info # None /\ info.caller = "direct"

\* __call__ on a target array without boxes: zero labels and zero masks of
\* num_total_anchor columns; the image is only resized.
CallEmpty ==
    /\ ncalls < MaxCalls
    /\ Len(targets) = 0
    /\ ~Probed
    /\ ret' = [op |-> "call", targets_in |-> targets, flipped |-> FALSE,
               fallback |-> FALSE, true_labels |-> 0,
               r |-> PreprocRatio(image.shape, input_dim),
               padded_labels |-> [g \in 1..self.max_labels |-> ZeroRow],
               is_in_boxes_all |-> Zeros(self.max_labels, self.num_total_anchor),
               is_in_boxes_and_center |-> Zeros(self.max_labels, self.num_total_anchor)]
    /\ ncalls' = ncalls + 1
    /\ UNCHANGED <<self, image, input_dim, targets, info, args, result>>

\* __call__ on a target array with boxes.  boxes = targets[:, :4] is a view
\* of the caller's array: _mirror, xyxy2cxcywh and boxes *= r_ write through
\* it.  targets_o is a copy taken before.  augment_hsv writes the caller's
\* image when its draw is below hsv_prob.
CallBoxes(u_flip) ==
    /\ ncalls < MaxCalls
    /\ Len(targets) > 0
    /\ ~Probed
    /\ LET targets_o == targets
           boxes_o   == [k \in 1..Len(targets_o) |-> xyxy2cxcywh(targets_o[k])]
           flipped   == RLt(u_flip, self.flip_prob)
           mirrored  == [k \in 1..Len(targets) |->
                            MirrorRow(targets[k], image.shape[2], flipped)]
           q         == PreprocRatio(image.shape, input_dim)
           r_        == Rat(q[1], q[2])
           boxes     == [k \in 1..Len(targets) |->
                            ScaleRow(xyxy2cxcywh(mirrored[k]), r_)]
           targets_t == TargetsT(boxes, boxes_o, r_)
           padded_labels == PadLabels(targets_t, self.max_labels)
           gt        == [g \in 1..self.max_labels |-> Tail(padded_labels[g])]
       IN  /\ image' \in {[image EXCEPT !.hsv = image.hsv \/ RLt(u_hsv, self.hsv_prob)] :
                            u_hsv \in RandomDraws}
           /\ targets' = boxes
           /\ info' = get_in_boxes_info(self, gt, Len(targets_t), "__call__")
           /\ ret' = [op |-> "call", targets_in |-> targets, flipped |-> flipped,
                      fallback |-> \A k \in 1..Len(targets') : ~MaskB(targets'[k]),
                      true_labels |-> info'.true_lables,
                      r |-> q,
                      padded_labels |-> padded_labels,
                      is_in_boxes_all |->
                          Aggregate(info'.is_in_boxes_all, info'.num_total_anchor),
                      is_in_boxes_and_center |-> info'.is_in_boxes_and_center]
    /\ ncalls' = ncalls + 1
    /\ UNCHANGED <<self, input_dim, args, result>>

Call == \E u_flip \in RandomDraws : CallBoxes(u_flip)

\* get_in_boxes_info called on its own on a fresh transform, with max_labels
\* rows of one geometry and any count of true rows.  The method keeps no
\* state, so a run either probes it once or goes through __call__.
GetInBoxesInfo ==
    /\ ncalls = 0 /\ info = None
    /\ \E b \in GtBoxes, true_lables \in 0..(self.max_labels + 1) :
          info' = get_in_boxes_info(self, [g \in 1..self.max_labels |-> b],
                                    true_lables, "direct")
    /\ UNCHANGED <<self, image, input_dim, targets, ncalls, ret, args, result>>

Next == CallEmpty \/ Call \/ GetInBoxesInfo

Init == InitTrain

Spec == Init /\ [][Next]_vars

-----------------------------------------------------------------------------
(* Properties of preproc (under SpecPreproc).                               *)

\* C8: preproc uses the single ratio r = min(target_h / src_h, target_w / src_w)
\* and returns it; the resized image has floor(src_h * r) rows and
\* floor(src_w * r) columns, never more than the canvas and as many as the
\* canvas in at least one dimension; it takes the top-left rectangle of the
\* canvas and every pixel outside it is exactly 114; a 100 x 50 source into
\* 640 x 640 gives a 640 x 320 region with r = 6.4.
C8_PreprocLetterbox ==
    /\ ResizedShape(<<100, 50>>, <<640, 640>>) = <<640, 320>>
    /\ Rat(PreprocRatio(<<100, 50>>, <<640, 640>>)[1],
           PreprocRatio(<<100, 50>>, <<640, 640>>)[2]) = Rat(64, 10)
    /\ result.op = "preproc" =>
         LET r  == RMin(Rat(args.size[1], args.shape[1]), Rat(args.size[2], args.shape[2]))
             nh == result.resized[1]
             nw == result.resized[2]
         IN  /\ Rat(result.r[1], result.r[2]) = r
             /\ nh = RFloor(RMul(R(args.shape[1]), r))
             /\ nw = RFloor(RMul(R(args.shape[2]), r))
             /\ nh <= args.size[1] /\ nw <= args.size[2]
             /\ nh = args.size[1] \/ nw = args.size[2]
             /\ Len(result.padded_img) = args.size[1]
             /\ \A y \in 1..args.size[1] :
                  /\ Len(result.padded_img[y]) = args.size[2]
                  /\ \A x \in 1..args.size[2] :
                       IF y <= nh /\ x <= nw
                       THEN result.padded_img[y][x] = <<"px", y, x>>
                       ELSE result.padded_img[y][x] = PadValue

-----------------------------------------------------------------------------
(* Properties of random_perspective and box_candidates (under SpecPersp).   *)

IdentityArgs ==
    /\ args.op = "random_perspective"
    /\ args.degrees = 0 /\ args.translate = Zero /\ args.scale = <<R(1), R(1)>>
    /\ args.shear = 0 /\ ~args.perspective /\ args.border = <<0, 0>>

\* A target row with its corners clipped to the image.
C7_Clip(row) ==
    <<RClip(row[1], Zero, R(args.shape[2])), RClip(row[2], Zero, R(args.shape[1])),
      RClip(row[3], Zero, R(args.shape[2])), RClip(row[4], Zero, R(args.shape[1])),
      row[5]>>

\* The clipped row is wider and higher than 2 px, of aspect ratio below 20,
\* and keeps more than a fifth of the area of the row.
C7_Passes(row) ==
    LET c  == C7_Clip(row)
        w2 == RSub(c[3], c[1])
        h2 == RSub(c[4], c[2])
        w1 == RSub(row[3], row[1])
        h1 == RSub(row[4], row[2])
    IN  /\ RLt(R(2), w2) /\ RLt(R(2), h2)
        /\ RLt(w2, RMul(R(20), h2)) /\ RLt(h2, RMul(R(20), w2))
        /\ RLt(RMul(w1, h1), RMul(R(5), RMul(w2, h2)))

\* C7 as stated: with degrees = 0, translate = 0, scale = (1, 1), shear = 0,
\* perspective = 0 and border = (0, 0), M is the identity, the warp is
\* skipped, and the returned targets are the input targets clipped to the
\* canvas: as many rows, in the same order, with the same labels.
C7_IdentityKeepsAllRows ==
    (IdentityArgs /\ result.op = "random_perspective") =>
        /\ result.M = Eye3
        /\ result.warp = "none"
        /\ result.shape = args.shape
        /\ result.targets = [k \in 1..Len(args.targets) |-> C7_Clip(args.targets[k])]

\* C7 as the code has it: with the identity parameters M is the identity and
\* the warp is skipped; the returned targets are the input targets clipped to
\* the canvas, in the same order and with the same labels, without the rows
\* box_candidates rejects (clipped width or height <= 2, aspect ratio >= 20,
\* or a fifth or less of the area left).
C7_IdentityUpToClipAndFilter ==
    (IdentityArgs /\ result.op = "random_perspective") =>
        /\ result.M = Eye3
        /\ result.warp = "none"
        /\ result.shape = args.shape
        /\ result.targets =
             SelectRows([k \in 1..Len(args.targets) |-> C7_Clip(args.targets[k])],
                        [k \in 1..Len(args.targets) |-> C7_Passes(args.targets[k])], 1)

\* The identity warp has run on two rows, kept one with clipped corners and
\* dropped the other.
C7_Witness ==
    /\ IdentityArgs /\ result.op = "random_perspective"
    /\ Len(args.targets) = 2 /\ Len(result.targets) = 1
    /\ \A k \in 1..2 : result.targets[1] # args.targets[k]

\* Row k of the input, after the warp: width and height of the clipped box,
\* and of the input box scaled by s.
C9_W2(k) == RSub(result.xy[k][3], result.xy[k][1])
C9_H2(k) == RSub(result.xy[k][4], result.xy[k][2])
C9_W1(k) == RMul(RSub(args.targets[k][3], args.targets[k][1]), result.s)
C9_H1(k) == RMul(RSub(args.targets[k][4], args.targets[k][2]), result.s)

C9_TooSmall(k) == RLe(C9_W2(k), R(2)) \/ RLe(C9_H2(k), R(2))

C9_TooThin(k) ==
    /\ RLt(Zero, C9_W2(k)) /\ RLt(Zero, C9_H2(k))
    /\ \/ RLe(RMul(R(20), C9_H2(k)), C9_W2(k))
       \/ RLe(RMul(R(20), C9_W2(k)), C9_H2(k))

C9_TooLittleLeft(k) ==
    /\ RLt(Zero, RMul(C9_W1(k), C9_H1(k)))
    /\ RLe(RMul(R(5), RMul(C9_W2(k), C9_H2(k))), RMul(C9_W1(k), C9_H1(k)))

C9_Rejected(k) == C9_TooSmall(k) \/ C9_TooThin(k) \/ C9_TooLittleLeft(k)

\* C9: a box whose width or height after the warp is <= 2 px, whose aspect
\* ratio after the warp is >= 20, or whose area after the warp is <= 0.2 of
\* the area of the box scaled by s, is not among the returned targets; the
\* returned targets are the other rows or some of them, in their order,
\* with their labels and their boxes after the warp.
C9_RejectedBoxesAreDropped ==
    (result.op = "random_perspective" /\ Len(args.targets) > 0) =>
        \E keep \in [1..Len(args.targets) -> BOOLEAN] :
            /\ \A k \in 1..Len(args.targets) : C9_Rejected(k) => ~keep[k]
            /\ result.targets =
                 SelectRows([k \in 1..Len(args.targets) |->
                                result.xy[k] \o <<args.targets[k][5]>>], keep, 1)

\* A warp that is not the identity has dropped a box that is too thin only,
\* or one with too little area left only, and kept another.
C9_Witness ==
    /\ result.op = "random_perspective" /\ result.M # Eye3
    /\ Len(args.targets) = 2 /\ Len(result.targets) = 1
    /\ \E k \in 1..2 :
         \/ C9_TooThin(k) /\ ~C9_TooSmall(k) /\ ~C9_TooLittleLeft(k)
         \/ C9_TooLittleLeft(k) /\ ~C9_TooSmall(k) /\ ~C9_TooThin(k)

-----------------------------------------------------------------------------
(* Properties of TrainTransform (under Spec).                               *)

\* The sum over the strides of floor(input_h / stride) * floor(input_w / stride).
RECURSIVE TotalAnchorsFrom(_)
TotalAnchorsFrom(i) ==
    IF i > Len(self.strides) THEN 0
    ELSE (self.input_size[1] \div self.strides[i]) * (self.input_size[2] \div self.strides[i])
         + TotalAnchorsFrom(i + 1)

TotalAnchors == TotalAnchorsFrom(1)

\* m is a matrix of the given numbers of rows and columns.
HasShape(m, rows, cols) ==
    /\ Len(m) = rows
    /\ \A g \in 1..rows : Len(m[g]) = cols

\* The last __call__ returned, and had boxes to work on.
CalledWithBoxes == ret.op = "call" /\ Len(ret.targets_in) > 0

\* The resize ratio of the caller's image.
CallRatio ==
    RMin(Rat(input_dim[1], image.shape[1]), Rat(input_dim[2], image.shape[2]))

\* Some ground truth row matches anchor a, in the mask of get_in_boxes_info.
C1_AnchorMatched(a) == \E g \in 1..self.max_labels : info.is_in_boxes_all[g][a]

\* Ground truth row g matches some anchor.
C1_RowMatched(g) == \E a \in 1..TotalAnchors : info.is_in_boxes_all[g][a]

\* C1 as stated: after a __call__ on a sample with boxes,
\* is_in_boxes_and_center has max_labels rows and total_anchors columns and
\* is per (gt slot, anchor), and is_in_boxes_all is the square
\* total_anchors x total_anchors mask, the outer product with itself of the
\* anchor-level vector "some ground truth matches this anchor".
C1_SquareAnchorMask ==
    CalledWithBoxes =>
        /\ HasShape(ret.is_in_boxes_and_center, self.max_labels, TotalAnchors)
        /\ ret.is_in_boxes_and_center = info.is_in_boxes_and_center
        /\ HasShape(ret.is_in_boxes_all, TotalAnchors, TotalAnchors)
        /\ \A a \in 1..TotalAnchors : \A b \in 1..TotalAnchors :
              ret.is_in_boxes_all[a][b] = (C1_AnchorMatched(a) /\ C1_AnchorMatched(b))

\* C1 as the code has it: both masks have max_labels rows and total_anchors
\* columns; is_in_boxes_and_center is per (gt slot, anchor), and
\* is_in_boxes_all[g][a] holds exactly when row g matches some anchor and
\* anchor a is matched by some row: the outer product of the row-wise any
\* with the anchor-wise any of the per-(gt, anchor) mask.
C1_RowByAnchorMask ==
    CalledWithBoxes =>
        /\ HasShape(ret.is_in_boxes_and_center, self.max_labels, TotalAnchors)
        /\ ret.is_in_boxes_and_center = info.is_in_boxes_and_center
        /\ HasShape(ret.is_in_boxes_all, self.max_labels, TotalAnchors)
        /\ \A g \in 1..self.max_labels : \A a \in 1..TotalAnchors :
              ret.is_in_boxes_all[g][a] = (C1_RowMatched(g) /\ C1_AnchorMatched(a))

\* A call where the aggregation sets a pair (row, anchor) that the
\* per-(gt, anchor) mask does not have.
C1_Witness ==
    /\ CalledWithBoxes
    /\ \E g \in 1..self.max_labels : \E a \in 1..TotalAnchors :
          ret.is_in_boxes_all[g][a] /\ ~info.is_in_boxes_all[g][a]

\* Row k of the array passed in, in centre format times the resize ratio,
\* label first; mirrored in the width of the image or not.
CenterRow(row, mirrored) ==
    LET x1 == IF mirrored THEN RSub(R(image.shape[2]), row[3]) ELSE row[1]
        x2 == IF mirrored THEN RSub(R(image.shape[2]), row[1]) ELSE row[3]
    IN  <<row[5],
          RMul(RMul(RAdd(x1, x2), Half), CallRatio),
          RMul(RMul(RAdd(row[2], row[4]), Half), CallRatio),
          RMul(RSub(x2, x1), CallRatio),
          RMul(RSub(row[4], row[2]), CallRatio)>>

\* The rescaled box of a row is more than 1 px wide and high.
Survives(row) ==
    /\ RLt(R(1), RMul(RSub(row[3], row[1]), CallRatio))
    /\ RLt(R(1), RMul(RSub(row[4], row[2]), CallRatio))

NoneSurvives == \A k \in 1..Len(ret.targets_in) : ~Survives(ret.targets_in[k])

\* C2: when no box of a call with boxes is left with min(width, height) > 1,
\* the packed targets are the original, un-mirrored boxes in centre format
\* times the resize ratio, with their labels, in their order; and a call with
\* boxes never returns zero true rows.
C2_FallbackToOriginalBoxes ==
    CalledWithBoxes =>
        /\ ret.true_labels >= 1
        /\ \E k \in 1..Len(ret.targets_in) : ret.padded_labels[1][1] = ret.targets_in[k][5]
        /\ NoneSurvives =>
             /\ ret.true_labels = Len(ret.targets_in)
             /\ \A g \in 1..self.max_labels :
                   g <= Len(ret.targets_in) =>
                      ret.padded_labels[g] = CenterRow(ret.targets_in[g], FALSE)

\* The mirror fired and every box was dropped.
C2_Witness ==
    /\ CalledWithBoxes /\ NoneSurvives /\ ret.flipped
    /\ ret.padded_labels[1] # CenterRow(ret.targets_in[1], TRUE)

\* C3: in the masks of get_in_boxes_info and in the masks __call__ returns,
\* a row whose index is at or after the true object count is False at every
\* anchor, whatever box the row holds and whatever the count.
C3_PaddingRowsAreFalse ==
    /\ info # None =>
         \A g \in 1..self.max_labels : g > info.true_lables =>
            \A a \in 1..info.num_total_anchor :
               /\ ~info.is_in_boxes_all[g][a]
               /\ ~info.is_in_boxes_and_center[g][a]
    /\ ret.op = "call" =>
         \A g \in 1..Len(ret.is_in_boxes_all) : g > ret.true_labels =>
            /\ \A a \in 1..Len(ret.is_in_boxes_all[g]) : ~ret.is_in_boxes_all[g][a]
            /\ \A a \in 1..Len(ret.is_in_boxes_and_center[g]) :
                  ~ret.is_in_boxes_and_center[g][a]

\* A call with one true row and one padding row, the true row matching an
\* anchor in both masks.
C3_Witness ==
    /\ CalledWithBoxes
    /\ ret.true_labels = 1 /\ self.max_labels = 2
    /\ \E a \in 1..TotalAnchors :
          ret.is_in_boxes_all[1][a] /\ ret.is_in_boxes_and_center[1][a]

\* The targets a call is to pack: the rows that survive, mirrored when the
\* mirror fired, or all rows un-mirrored when none survives.
C4_Survivors ==
    IF NoneSurvives
    THEN [k \in 1..Len(ret.targets_in) |-> CenterRow(ret.targets_in[k], FALSE)]
    ELSE LET kept == SelectSeq(ret.targets_in, Survives)
         IN  [k \in 1..Len(kept) |-> CenterRow(kept[k], ret.flipped)]

\* C4: the label tensor has max_labels rows of 5 values; its first
\* min(k, max_labels) rows are the first of the k surviving targets in their
\* order, and every row after them is zero.
C4_PaddedLabelsPrefix ==
    ret.op = "call" =>
        /\ HasShape(ret.padded_labels, self.max_labels, 5)
        /\ \A g \in 1..self.max_labels :
              ret.padded_labels[g] =
                 IF g <= Len(C4_Survivors) THEN C4_Survivors[g] ELSE ZeroRow

\* Of two boxes the first is dropped: the second takes row 1 and row 2 is zero.
C4_Witness ==
    /\ CalledWithBoxes /\ self.max_labels = 2
    /\ Len(ret.targets_in) = 2
    /\ ~Survives(ret.targets_in[1]) /\ Survives(ret.targets_in[2])
    /\ ret.padded_labels[1][1] = ret.targets_in[2][5]
    /\ ret.padded_labels[2] = ZeroRow

\* C5: __call__ on a target array without boxes returns an all-zero label
\* tensor of max_labels rows and two all-False masks of max_labels rows and
\* as many columns as get_grid has anchors, the sum over the strides of
\* floor(input_h / stride) * floor(input_w / stride); num_total_anchor is
\* that number.
C5_EmptyCallShapes ==
    (ret.op = "call" /\ Len(ret.targets_in) = 0) =>
        /\ ret.padded_labels = [g \in 1..self.max_labels |-> ZeroRow]
        /\ Len(get_grid(self)) = TotalAnchors
        /\ self.num_total_anchor = TotalAnchors
        /\ ret.is_in_boxes_all = Zeros(self.max_labels, TotalAnchors)
        /\ ret.is_in_boxes_and_center = Zeros(self.max_labels, TotalAnchors)

\* Anchor a of the last get_in_boxes_info: its centre, and the edges of row g.
C6_Xc(a) == Rat((2 * info.grid[a].x + 1) * info.grid[a].stride, 2)
C6_Yc(a) == Rat((2 * info.grid[a].y + 1) * info.grid[a].stride, 2)
C6_Left(g) == RSub(info.gt[g][1], RMul(info.gt[g][3], Half))
C6_Right(g) == RAdd(info.gt[g][1], RMul(info.gt[g][3], Half))
C6_Top(g) == RSub(info.gt[g][2], RMul(info.gt[g][4], Half))
C6_Bottom(g) == RAdd(info.gt[g][2], RMul(info.gt[g][4], Half))

C6_StrictlyInBox(g, a) ==
    /\ RLt(C6_Left(g), C6_Xc(a)) /\ RLt(C6_Xc(a), C6_Right(g))
    /\ RLt(C6_Top(g), C6_Yc(a)) /\ RLt(C6_Yc(a), C6_Bottom(g))

C6_StrictlyInCenter(g, a) ==
    LET rad == Rat(5 * info.grid[a].stride, 2)
    IN  /\ RLt(RSub(info.gt[g][1], rad), C6_Xc(a)) /\ RLt(C6_Xc(a), RAdd(info.gt[g][1], rad))
        /\ RLt(RSub(info.gt[g][2], rad), C6_Yc(a)) /\ RLt(C6_Yc(a), RAdd(info.gt[g][2], rad))

\* C6: for a row g below the true count and an anchor a of grid index
\* (gx, gy) and stride s, with the centre ((gx + 0.5) s, (gy + 0.5) s):
\* is_in_boxes[g, a] holds exactly when the centre is strictly between the
\* edges of the box, is_in_centers[g, a] exactly when it is strictly inside
\* the square of half-width 2.5 s around the box centre, and the two masks
\* returned are their OR and their AND.
C6_MembershipIsStrict ==
    info # None =>
        \A g \in 1..self.max_labels : g <= info.true_lables =>
            \A a \in 1..info.num_total_anchor :
               /\ info.is_in_boxes[g][a] = C6_StrictlyInBox(g, a)
               /\ info.is_in_centers[g][a] = C6_StrictlyInCenter(g, a)
               /\ info.is_in_boxes_all[g][a] =
                     (C6_StrictlyInBox(g, a) \/ C6_StrictlyInCenter(g, a))
               /\ info.is_in_boxes_and_center[g][a] =
                     (C6_StrictlyInBox(g, a) /\ C6_StrictlyInCenter(g, a))

\* A true row with an anchor centre on its left edge, between its top and
\* bottom, and another anchor centre strictly inside.
C6_Witness ==
    /\ info # None /\ info.true_lables >= 1
    /\ \E a \in 1..info.num_total_anchor :
          /\ C6_Xc(a) = C6_Left(1)
          /\ RLt(C6_Top(1), C6_Yc(a)) /\ RLt(C6_Yc(a), C6_Bottom(1))
          /\ ~info.is_in_boxes[1][a]
    /\ \E a \in 1..info.num_total_anchor :
          info.is_in_boxes[1][a] /\ ~info.is_in_centers[1][a]

\* C10: __call__ leaves the caller's target array as it was passed in.
C10_TargetsUnchanged == ret.op = "call" => targets = ret.targets_in

=============================================================================
